---- MODULE Spec2Model ----
(***************************************************************************)
(* Render job queue and execution pipeline of RenderFlow's renderer        *)
(* (RenderQueue and RenderService).                                        *)
(*                                                                         *)
(* JavaScript runs every callback to completion, so one action of this     *)
(* module is one synchronous run of the program: a public call             *)
(* (createJob, subscribeToProgress, invalidateBundle) up to its return, or *)
(* the continuation of an await once the awaited promise has settled.  The *)
(* bundler and the rendering engine are the environment: their promises    *)
(* settle, and the engine reports progress, in any order.                  *)
(*                                                                         *)
(* The operators on a state record s are the methods of the two classes;   *)
(* a method that calls another one is an operator that uses the other.     *)
(* An exception in flight is the field thrown of the record.               *)
(***************************************************************************)
EXTENDS Integers, Sequences, FiniteSets, TLC

\* Bounds of the model.
MaxJobs == 3
MaxInvalidations == 1
MaxLiveJobs == 2
MaxListeners == 1
MaxRequests == 3
MaxSubscriptions == 2
MaxCalls == 2
MaxRows == 1
MaxStoreCalls == 2
MaxOptionCalls == 1

\* The values of config.concurrency the service is constructed with (0: not given).
ConcurrencyOptions == {0, 1, 2}

\* The value of an optional field that is not set.
Undefined == "undefined"

\* The keys of the COMPOSITIONS object literal, and names that every object literal
\* inherits from Object.prototype.
RegistryKeys ==
    {"EventPromo", "EventReel", "ProductBoard", "StatsDashboard", "Branding", "Alert"}
ObjectPrototypeKeys ==
    {"constructor", "toString", "valueOf", "hasOwnProperty", "__proto__"}

\* COMPOSITIONS[compositionId]: a property read, which finds the inherited
\* properties as well as the own ones.
Composition(compositionId) ==
    IF compositionId \in RegistryKeys THEN "metadata"
    ELSE IF compositionId \in ObjectPrototypeKeys THEN "inherited"
    ELSE Undefined

\* The value of an optional number that is not set (undefined).
NotGiven == -1

\* composition.defaultDuration; the inherited properties have none.
DefaultDuration(compositionId) ==
    CASE compositionId = "EventPromo" -> 10
      [] compositionId = "EventReel" -> 30
      [] compositionId = "ProductBoard" -> 15
      [] compositionId = "StatsDashboard" -> 8
      [] compositionId = "Branding" -> 5
      [] compositionId = "Alert" -> 6
      [] OTHER -> NotGiven

\* DIMENSIONS[format]
Dimensions(format) ==
    CASE format = "landscape" -> [width |-> 1920, height |-> 1080]
      [] format = "portrait" -> [width |-> 1080, height |-> 1920]
      [] format = "square" -> [width |-> 1080, height |-> 1080]

\* a || b for numbers: b when a is undefined or 0, a otherwise.
OrNumber(a, b) == IF a \in {NotGiven, 0} THEN b ELSE a

\* a || b for the names of formats and qualities: b when a is undefined.
OrName(a, b) == IF a = Undefined THEN b ELSE a

\* The inputs of createJob: the composition ids and output file names its callers
\* give, with no option set.
CompositionIds == {"EventPromo", "NoSuchComposition", "constructor"}
OutputFilenames == {Undefined, "clip.mov"}
DefaultInput ==
    [compositionId |-> "EventPromo", outputFilename |-> Undefined,
     format |-> Undefined, duration |-> NotGiven, fps |-> NotGiven,
     quality |-> Undefined]
Inputs ==
    {[DefaultInput EXCEPT !.compositionId = c, !.outputFilename = f] :
        c \in CompositionIds, f \in OutputFilenames}

\* The inputs of createJob for the registered compositions, with the options
\* format, duration, fps and quality given or not.
Formats == {"landscape", "portrait", "square"}
Durations == {0, 20}
FrameRates == {60}
Qualities == {"high"}
OptionInputs ==
    [compositionId : RegistryKeys, outputFilename : {Undefined},
     format : Formats \cup {Undefined}, duration : Durations \cup {NotGiven},
     fps : FrameRates \cup {NotGiven}, quality : Qualities \cup {Undefined}]

\* The output path createJob computes, without its directory: the file name given,
\* or the composition id with a random suffix and the extension .mp4.
OutputPath(input) ==
    IF input.outputFilename # Undefined THEN input.outputFilename
    ELSE "<compositionId>_<uuid>.mp4"

\* job.outputPath.replace(/\.mp4$/, '_thumb.jpg'): a path that does not end in .mp4
\* is returned as it is.
ThumbnailPathOf(outputPath) ==
    IF outputPath = "<compositionId>_<uuid>.mp4" THEN "<compositionId>_<uuid>_thumb.jpg"
    ELSE outputPath

\* The progress the engine reports, in thousandths of the whole render.
Fractions == {0, 1000}

\* The values of config.entryPoint the service is constructed with; path.resolve
\* takes a string and throws a TypeError for anything else.
EntryPoints == {"./src/index.ts", Undefined}
EntryPointMessage == "The \"paths[0]\" argument must be of type string"

\* The messages of the errors the bundler, the engine and a subscriber throw.
BundleMessages == {"bundle failed"}
EngineMessages == {"engine failed"}
ListenerMessage == "listener failed"

\* What a subscribed callback does when it is notified: it calls createJob, it
\* throws, or it does the one and then the other.
CallbackKinds == {"createJob", "throw", "createJobThenThrow"}

\* A callback that touches nothing of the service, and the callback that
\* renderComposition subscribes to its own job.
Observer == "observer"
RenderCompositionCallback == "renderComposition"

VARIABLES
    jobs,            \* RenderQueue.jobs: the job records, in insertion order (the id is the index)
    queue,           \* RenderQueue.queue: the pending job ids, oldest first
    processing,      \* RenderQueue.processing
    maxConcurrent,   \* RenderQueue.maxConcurrent
    entryPoint,      \* RenderService.config.entryPoint
    listeners,       \* RenderQueue.listeners: per job, its callbacks in subscription order
    isProcessing,    \* RenderService.isProcessing
    bundlePromise,   \* RenderService.bundlePromise: 0 (null) or the bundler call it holds
    bundleLocation,  \* RenderService.bundleLocation: 0 (null) or the bundler call that produced it
    builds,          \* the promises returned by bundle(), one per call, in call order;
                     \* awaiting is history: the jobs awaiting the call when it rejected
    pc,              \* where each processJob is suspended
    held,            \* per job: the bundler call its getBundle() awaits, then its local bundleLocation
    invalidations,   \* history: the number of invalidateBundle() calls so far
    invalidatedAt,   \* history: the number of bundler calls made before the last
                     \* invalidateBundle() call
    cachedSince,     \* history: the first location getBundle has cached since the
                     \* last invalidateBundle() call (0: none)
    returned,        \* history: per job, the job object as createJob returned it, whether a
                     \* slot was free at the call, and whether processQueue was running
    requests,        \* history: the createJob calls, each with its input and the error
                     \* it rejected with
    promises,        \* per job, the promise renderComposition returned for it, if any
    subscribing,     \* the job whose renderComposition call awaits createJob: its
                     \* continuation is in the microtask queue (0: none)
    subscriptions,   \* history: the functions subscribe() returned to the observers, in
                     \* call order, each with its job, its callback and the number of
                     \* times it was called
    notifications,   \* history: the update() calls of the last step that found an
                     \* observer or a callback of renderComposition, each with its
                     \* snapshot, the callbacks subscribed when it began (before) and
                     \* the callbacks it called (got)
    admittedBy,      \* history: per job, the caller of the processQueue that dequeued it
    overlapped,      \* history: the loop of processQueue was entered while it was running
    reopened,        \* history: the jobs whose status, progress or error an update()
                     \* changed when they were completed or failed
    renderJobs,      \* the rows of the render_jobs table, in insertion order (the id is the index)
    calls            \* the calls of updateRenderJobStatus and cancelRenderJob made so
                     \* far, each with its arguments and the await it has reached

\* The variables of the render_jobs store, and those of the renderer.
storeVars == <<renderJobs, calls>>

serviceVars == <<jobs, queue, processing, maxConcurrent, entryPoint, listeners, isProcessing,
          bundlePromise, bundleLocation, builds, pc, held, invalidations,
          invalidatedAt, cachedSince, returned, requests, promises, subscribing,
          subscriptions, notifications, admittedBy, overlapped, reopened>>

vars == <<serviceVars, storeVars>>

\* The program state as one record, for the operators that model the methods.
St ==
    [jobs |-> jobs, queue |-> queue, processing |-> processing,
     maxConcurrent |-> maxConcurrent, entryPoint |-> entryPoint,
     listeners |-> listeners,
     isProcessing |-> isProcessing,
     bundlePromise |-> bundlePromise, bundleLocation |-> bundleLocation,
     builds |-> builds, pc |-> pc, held |-> held,
     invalidatedAt |-> invalidatedAt, cachedSince |-> cachedSince,
     returned |-> returned, requests |-> requests, admittedBy |-> admittedBy,
     promises |-> promises, subscribing |-> subscribing,
     subscriptions |-> subscriptions, notifications |-> <<>>,
     overlapped |-> overlapped, reopened |-> reopened,
     running |-> 0,          \* the activations of the processQueue loop on the stack
     thrown |-> Undefined]

RECURSIVE CreateJobOp(_, _)
RECURSIVE ProcessQueue(_, _)

------------------------------------------------------------------------------
(* RenderQueue *)

\* Mutant of QueueAdd: the id is put at the front of the pending list (unshift).
QueueAddFront(s, job) ==
    [s EXCEPT !.jobs = Append(@, job), !.queue = <<Len(s.jobs) + 1>> \o @]

\* RenderQueue.add
QueueAdd(s, job) ==
    [s EXCEPT !.jobs = Append(@, job), !.queue = Append(@, Len(s.jobs) + 1)]

\* Mutant of CanProcess: the cap is not tested.
CanProcessNoCap(s) ==
    Len(s.queue) > 0

\* RenderQueue.canProcess
CanProcess(s) ==
    Cardinality(s.processing) < s.maxConcurrent /\ Len(s.queue) > 0

\* RenderQueue.dequeue: the state after it; the job it returns is Head(s.queue).
Dequeue(s) ==
    IF s.queue = <<>> THEN s
    ELSE [s EXCEPT !.queue = Tail(@), !.processing = @ \cup {Head(s.queue)}]

\* Mutant of QueueComplete: a failed job is put back in the pending list.
QueueCompleteRetry(s, id) ==
    [s EXCEPT !.processing = @ \ {id},
              !.queue = IF s.jobs[id].status = "failed" THEN Append(@, id) ELSE @]

\* RenderQueue.complete
QueueComplete(s, id) ==
    [s EXCEPT !.processing = @ \ {id}]

\* RenderQueue.subscribe
QueueSubscribe(s, id, callback) ==
    [s EXCEPT !.listeners[id] = Append(@, callback)]

\* The caller of subscribe(id, callback) keeps the function it returned: history.
Kept(s, id, callback) ==
    [s EXCEPT !.subscriptions = Append(@, [id |-> id, callback |-> callback, calls |-> 0])]

\* listeners.indexOf(callback): the index of the first element that is the callback
\* (0 for the -1 of JavaScript, the indices of a sequence starting at 1).
IndexOf(list, callback) ==
    IF \E i \in DOMAIN list : list[i] = callback
    THEN CHOOSE i \in DOMAIN list :
             list[i] = callback /\ \A k \in 1..(i - 1) : list[k] # callback
    ELSE 0

\* listeners.splice(index, 1)
Splice(list, index) ==
    SubSeq(list, 1, index - 1) \o SubSeq(list, index + 1, Len(list))

\* The function that RenderQueue.subscribe(id, callback) returned is called.
QueueUnsubscribe(s, id, callback) ==
    LET index == IndexOf(s.listeners[id], callback)
    IN  IF index > 0 THEN [s EXCEPT !.listeners[id] = Splice(@, index)] ELSE s

\* resolve or reject of the promise of renderComposition: a settled promise stays
\* as it is.
SettlePromise(s, id, state, value) ==
    IF s.promises[id].state = "pending"
    THEN [s EXCEPT !.promises[id] = [state |-> state, value |-> value]]
    ELSE s

\* The callback that renderComposition subscribes to job id is called with a progress.
RenderCompositionNotified(s, id, progress) ==
    IF progress.status = "completed"
    THEN SettlePromise(QueueUnsubscribe(s, id, RenderCompositionCallback), id,
                       "resolved", s.jobs[id].outputPath)
    ELSE IF progress.status = "failed"
    THEN SettlePromise(QueueUnsubscribe(s, id, RenderCompositionCallback), id,
                       "rejected",
                       IF s.jobs[id].error # Undefined THEN s.jobs[id].error
                       ELSE "Render failed")
    ELSE s

\* A callback subscribed to job id runs with a progress: the one of renderComposition,
\* an observer, or one of the given kind; createJob is an async function, which
\* throws nothing at its caller.
Callback(s, id, kind, progress) ==
    IF kind = RenderCompositionCallback THEN RenderCompositionNotified(s, id, progress)
    ELSE IF kind = Observer THEN s
    ELSE
    LET called == IF kind \in {"createJob", "createJobThenThrow"} /\ Len(s.jobs) < MaxJobs
                  THEN CreateJobOp(s, DefaultInput)
                  ELSE s
    IN  IF kind \in {"throw", "createJobThenThrow"}
        THEN [called EXCEPT !.thrown = ListenerMessage]
        ELSE called

\* listeners.forEach(cb => cb(progress)) from index i on, for the update() call
\* recorded as notifications[u]: forEach visits the indices below the length the array
\* had when it began, skips an index the array no longer has, and calls the element
\* that is at the index when it gets there; an exception ends it.
RECURSIVE NotifyFrom(_, _, _, _, _, _)
NotifyFrom(s, id, progress, u, i, len) ==
    IF i > len \/ s.thrown # Undefined THEN s
    ELSE IF i > Len(s.listeners[id]) THEN NotifyFrom(s, id, progress, u, i + 1, len)
    ELSE NotifyFrom(
             Callback(IF u = 0 THEN s
                      ELSE [s EXCEPT !.notifications[u].got = Append(@, s.listeners[id][i])],
                      id, s.listeners[id][i], progress),
             id, progress, u, i + 1, len)

\* RenderQueue.notifyProgress
NotifyProgress(s, id) ==
    LET progress == [jobId |-> id, status |-> s.jobs[id].status,
                     progress |-> s.jobs[id].progress]
        recorded == [s EXCEPT !.notifications = Append(@,
                        [progress |-> progress, before |-> s.listeners[id], got |-> <<>>])]
    IN  IF \E i \in DOMAIN s.listeners[id] :
               s.listeners[id][i] \in {Observer, RenderCompositionCallback}
        THEN NotifyFrom(recorded, id, progress, Len(recorded.notifications), 1,
                        Len(s.listeners[id]))
        ELSE NotifyFrom(s, id, progress, 0, 1, Len(s.listeners[id]))

\* Object.assign(job, updates)
Assign(job, updates) ==
    [f \in DOMAIN job |-> IF f \in DOMAIN updates THEN updates[f] ELSE job[f]]

\* The update changes the status, the progress or the error of a job that is
\* completed or failed.
Reopens(job, updates) ==
    /\ job.status \in {"completed", "failed"}
    /\ \E f \in {"status", "progress", "error"} : Assign(job, updates)[f] # job[f]

\* RenderQueue.update
Update(s, id, updates) ==
    IF id \in DOMAIN s.jobs
    THEN NotifyProgress([s EXCEPT !.jobs[id] = Assign(@, updates),
                                  !.reopened = IF Reopens(s.jobs[id], updates)
                                               THEN @ \cup {id} ELSE @],
                        id)
    ELSE s

------------------------------------------------------------------------------
(* RenderService: bundle management *)

\* The promise that bundle() returns.
NewBuild(s) ==
    [state |-> "pending", error |-> Undefined, awaiting |-> {}]

\* Mutant of GetBundle: the in-flight promise is not reused.
GetBundleNoJoin(s, id) ==
    IF s.bundleLocation # 0
    THEN [s EXCEPT !.pc[id] = "bundleReady", !.held[id] = s.bundleLocation]
    ELSE [s EXCEPT !.builds = Append(@, NewBuild(s)),
                   !.bundlePromise = Len(s.builds) + 1,
                   !.pc[id] = "bundleBuilding",
                   !.held[id] = Len(s.builds) + 1]

\* RenderService.getBundle, up to its first await, called by processJob of job id.
\* path.resolve throws before bundle() is called when the entry point is no string:
\* the promise of getBundle is rejected when getBundle returns.
GetBundle(s, id) ==
    IF s.bundleLocation # 0
    THEN [s EXCEPT !.pc[id] = "bundleReady", !.held[id] = s.bundleLocation]
    ELSE IF s.bundlePromise # 0
    THEN [s EXCEPT !.pc[id] = "bundleJoined", !.held[id] = s.bundlePromise]
    ELSE IF s.entryPoint = Undefined
    THEN [s EXCEPT !.pc[id] = "bundleThrew"]
    ELSE [s EXCEPT !.builds = Append(@, NewBuild(s)),
                   !.bundlePromise = Len(s.builds) + 1,
                   !.pc[id] = "bundleBuilding",
                   !.held[id] = Len(s.builds) + 1]

\* RenderService.invalidateBundle
InvalidateBundleOp(s) ==
    [s EXCEPT !.bundleLocation = 0, !.bundlePromise = 0,
              !.invalidatedAt = Len(s.builds), !.cachedSince = 0]

------------------------------------------------------------------------------
(* RenderService: queue processing *)

\* The exception in flight is caught, or leaves the program (a rejected promise that
\* processQueue's catch logs, or an error thrown into the engine).
Caught(s) ==
    [s EXCEPT !.thrown = Undefined]

\* The finally block of RenderService.processJob.
ProcessJobFinally(s, id) ==
    ProcessQueue(QueueComplete([s EXCEPT !.pc[id] = "done", !.held[id] = 0], id),
                 "finally")

\* Mutant of ProcessJobCatch: the failure is recorded on every job being processed.
ProcessJobCatchCascade(s, id, errorMessage) ==
    [s EXCEPT !.jobs = [k \in DOMAIN s.jobs |->
        IF k \in s.processing
        THEN Assign(s.jobs[k], [status |-> "failed", error |-> errorMessage,
                                completedAt |-> TRUE])
        ELSE s.jobs[k]]]

\* Mutant of ProcessJobCatch: a fixed message is recorded in place of the error's.
ProcessJobCatchFixedMessage(s, id, errorMessage) ==
    Caught(Update(s, id, [status |-> "failed", error |-> "Render failed",
                          completedAt |-> TRUE]))

\* The catch block of RenderService.processJob; what it throws, its own throw or a
\* subscriber's, rejects the promise of processJob once finally has run.
ProcessJobCatch(s, id, errorMessage) ==
    Caught(Update(s, id, [status |-> "failed", error |-> errorMessage,
                          completedAt |-> TRUE]))

\* Mutant of ProcessJobFail: a catch with no finally, the slot is never released.
ProcessJobFailNoFinally(s, id, errorMessage) ==
    [ProcessJobCatch(s, id, errorMessage) EXCEPT !.pc[id] = "done", !.held[id] = 0]

\* RenderService.processJob when a statement of its try block throws: catch, then finally.
ProcessJobFail(s, id, errorMessage) ==
    ProcessJobFinally(ProcessJobCatch(Caught(s), id, errorMessage), id)

\* A statement of the try block of processJob has run, and s is the state after it:
\* the block goes on with continue, or to catch with what was thrown.
TryThen(s, id, continue) ==
    IF s.thrown # Undefined THEN ProcessJobFail(s, id, s.thrown) ELSE continue

\* Mutant of ProcessJobStart: the status is not updated before getBundle is called.
ProcessJobStartNoUpdate(s, id) ==
    GetBundle(s, id)

\* RenderService.processJob, from its start to its first await.
ProcessJobStart(s, id) ==
    LET updated == Update(s, id, [status |-> "bundling", startedAt |-> TRUE])
    IN  TryThen(updated, id, GetBundle(updated, id))

\* Mutant of ProcessLoop: an if in place of the while, one job is started per call.
ProcessLoopOnce(s, caller) ==
    IF CanProcess(s)
    THEN ProcessJobStart(
             [Dequeue(s) EXCEPT !.admittedBy[Head(s.queue)] = caller],
             Head(s.queue))
    ELSE s

\* The while loop of RenderService.processQueue; caller is history, recorded for
\* each job the loop dequeues.
RECURSIVE ProcessLoop(_, _)
ProcessLoop(s, caller) ==
    IF CanProcess(s)
    THEN ProcessLoop(
             ProcessJobStart(
                 [Dequeue(s) EXCEPT !.admittedBy[Head(s.queue)] = caller],
                 Head(s.queue)),
             caller)
    ELSE s

\* processQueue has passed its guard: the flag is set, the loop runs, and the
\* finally block clears the flag.
ProcessQueueRun(s, caller) ==
    [ProcessLoop([s EXCEPT !.isProcessing = TRUE,
                           !.overlapped = @ \/ s.running > 0,
                           !.running = @ + 1],
                 caller)
        EXCEPT !.isProcessing = FALSE, !.running = @ - 1]

\* Mutant of ProcessQueue: no guard, every call runs the loop.
ProcessQueueNoGuard(s, caller) ==
    ProcessQueueRun(s, caller)

\* RenderService.processQueue
ProcessQueue(s, caller) ==
    IF s.isProcessing THEN s ELSE ProcessQueueRun(s, caller)

\* RenderService.processJob after getBundle() has returned: up to selectComposition.
ProcessJobBundled(s, id) ==
    LET updated == Update(s, id, [status |-> "rendering"])
    IN  TryThen(updated, id, [updated EXCEPT !.pc[id] = "selectComposition"])

\* Math.round(progress * 100), progress given in thousandths.
RoundPercent(fraction) == (fraction + 5) \div 10

\* The onProgress callback that processJob hands to renderMedia; what a subscriber
\* throws is thrown into the engine.
OnProgress(s, id, fraction, encodedFrames) ==
    Caught(Update(s, id, [status |-> IF encodedFrames > 0 THEN "encoding" ELSE "rendering",
                          progress |-> RoundPercent(fraction)]))

\* Mutant of ProcessJobComplete: the final update leaves progress as the engine last reported it.
ProcessJobCompleteNoProgress(s, id, thumbnailExists) ==
    LET updated == Update(s, id, [status |-> "completed",
                                  thumbnailPath |->
                                      IF thumbnailExists
                                      THEN ThumbnailPathOf(s.jobs[id].outputPath)
                                      ELSE Undefined,
                                  completedAt |-> TRUE])
    IN  TryThen(updated, id, ProcessJobFinally(updated, id))

\* RenderService.processJob after the thumbnail attempt: mark complete, then finally.
ProcessJobComplete(s, id, thumbnailExists) ==
    LET updated == Update(s, id, [status |-> "completed",
                                  progress |-> 100,
                                  thumbnailPath |->
                                      IF thumbnailExists
                                      THEN ThumbnailPathOf(s.jobs[id].outputPath)
                                      ELSE Undefined,
                                  completedAt |-> TRUE])
    IN  TryThen(updated, id, ProcessJobFinally(updated, id))

\* Mutant of NewJob: the duration given is ignored.
NewJobDefaultDuration(input) ==
    [compositionId |-> input.compositionId,
     status |-> "queued", progress |-> 0, error |-> Undefined,
     outputPath |-> OutputPath(input),
     format |-> OrName(input.format, "landscape"),
     duration |-> DefaultDuration(input.compositionId),
     fps |-> OrNumber(input.fps, 30),
     quality |-> OrName(input.quality, "standard"),
     thumbnailPath |-> Undefined, startedAt |-> FALSE, completedAt |-> FALSE]

\* The job object that RenderService.createJob constructs.
NewJob(input) ==
    [compositionId |-> input.compositionId,
     status |-> "queued", progress |-> 0, error |-> Undefined,
     outputPath |-> OutputPath(input),
     format |-> OrName(input.format, "landscape"),
     duration |-> OrNumber(input.duration, DefaultDuration(input.compositionId)),
     fps |-> OrNumber(input.fps, 30),
     quality |-> OrName(input.quality, "standard"),
     thumbnailPath |-> Undefined, startedAt |-> FALSE, completedAt |-> FALSE]

\* RenderService.createJob up to queue.add: the job is in the map and the pending
\* list, with no callback yet and no processJob.
CreateJobAdd(s, input) ==
    QueueAdd([s EXCEPT !.pc = Append(@, "queued"),
                       !.held = Append(@, 0),
                       !.listeners = Append(@, <<>>),
                       !.promises = Append(@, [state |-> "none", value |-> Undefined]),
                       !.admittedBy = Append(@, "none")],
             NewJob(input))

\* A createJob call is made: history.
Requested(s, input, error) ==
    [s EXCEPT !.requests = Append(@, [input |-> input, error |-> error])]

\* The job object is handed to the caller of createJob: history.
Return(s, id, before) ==
    [s EXCEPT !.returned = Append(@,
        [id |-> id,
         status |-> s.jobs[id].status,
         progress |-> s.jobs[id].progress,
         slotFree |-> Cardinality(before.processing) < before.maxConcurrent,
         reentrant |-> before.isProcessing])]

\* RenderService.renderComposition up to its await of createJob: the promise it
\* returns is pending and its continuation is queued, or createJob has rejected and
\* the promise rejects with it.
RenderCompositionOp(s, input) ==
    LET created == CreateJobOp(s, input)
        id == Len(s.jobs) + 1
    IN  IF Len(created.jobs) = Len(s.jobs) THEN created
        ELSE [created EXCEPT !.promises[id] = [state |-> "pending", value |-> Undefined],
                             !.subscribing = id]

\* Mutant of CreateJobOp: the queue is not advanced after the add.
CreateJobOpNoProcess(s, input) ==
    IF Composition(input.compositionId) = Undefined
    THEN Requested(s, input, "Unknown composition")
    ELSE Return(CreateJobAdd(Requested(s, input, Undefined), input), Len(s.jobs) + 1, s)

\* RenderService.createJob: the state when it returns the job, or when it rejects
\* (an async function throws nothing at its caller).
CreateJobOp(s, input) ==
    IF Composition(input.compositionId) = Undefined
    THEN Requested(s, input, "Unknown composition")
    ELSE Return(ProcessQueue(CreateJobAdd(Requested(s, input, Undefined), input),
                             "createJob"),
                Len(s.jobs) + 1, s)

------------------------------------------------------------------------------
(* The state machine *)

\* The constructor of RenderService: new RenderQueue(config.concurrency || 2).
Init ==
    /\ jobs = <<>>
    /\ queue = <<>>
    /\ processing = {}
    /\ \E concurrency \in ConcurrencyOptions :
           maxConcurrent = IF concurrency = 0 THEN 2 ELSE concurrency
    /\ entryPoint \in EntryPoints
    /\ listeners = <<>>
    /\ isProcessing = FALSE
    /\ bundlePromise = 0
    /\ bundleLocation = 0
    /\ builds = <<>>
    /\ pc = <<>>
    /\ held = <<>>
    /\ invalidations = 0
    /\ invalidatedAt = 0
    /\ cachedSince = 0
    /\ returned = <<>>
    /\ requests = <<>>
    /\ promises = <<>>
    /\ subscribing = 0
    /\ subscriptions = <<>>
    /\ notifications = <<>>
    /\ admittedBy = <<>>
    /\ overlapped = FALSE
    /\ reopened = {}
    /\ renderJobs = <<>>
    /\ calls = <<>>

\* The variables of the renderer take the values of the record s2; the store is
\* another process, which the renderer does not call.
Becomes(s2) ==
    \E t \in {s2} :
        /\ jobs' = t.jobs
        /\ queue' = t.queue
        /\ processing' = t.processing
        /\ maxConcurrent' = t.maxConcurrent
        /\ entryPoint' = t.entryPoint
        /\ listeners' = t.listeners
        /\ isProcessing' = t.isProcessing
        /\ bundlePromise' = t.bundlePromise
        /\ bundleLocation' = t.bundleLocation
        /\ builds' = t.builds
        /\ pc' = t.pc
        /\ held' = t.held
        /\ invalidatedAt' = t.invalidatedAt
        /\ cachedSince' = t.cachedSince
        /\ returned' = t.returned
        /\ requests' = t.requests
        /\ promises' = t.promises
        /\ subscribing' = t.subscribing
        /\ subscriptions' = t.subscriptions
        /\ notifications' = t.notifications
        /\ admittedBy' = t.admittedBy
        /\ overlapped' = t.overlapped
        /\ reopened' = t.reopened
        /\ UNCHANGED storeVars

\* A caller invokes createJob with the given input.
CreateJobWith(input) ==
    /\ Len(jobs) < MaxJobs
    /\ Becomes(CreateJobOp(St, input))
    /\ UNCHANGED invalidations

\* A caller invokes createJob for a registered composition, with the default file
\* name, and gets the job object back.
CreateJob ==
    CreateJobWith(DefaultInput)

\* A caller invokes invalidateBundle.
InvalidateBundle ==
    /\ invalidations < MaxInvalidations
    /\ Becomes(InvalidateBundleOp(St))
    /\ invalidations' = invalidations + 1

\* The number of callbacks subscribed to the jobs from id on.
RECURSIVE Subscribed(_)
Subscribed(id) ==
    IF id > Len(listeners) THEN 0 ELSE Len(listeners[id]) + Subscribed(id + 1)

\* A caller that holds a job subscribes a callback to it.  A job whose processJob
\* has ended is left out: update() is never called for it again, so its callbacks
\* never run.
Subscribe(id, kind) ==
    /\ pc[id] # "done"
    /\ Becomes(QueueSubscribe(St, id, kind))
    /\ UNCHANGED invalidations

\* A caller subscribes an observer to a job and keeps the function it gets back.
ObserverSubscribes(id) ==
    /\ Len(subscriptions) < MaxSubscriptions
    /\ Becomes(Kept(QueueSubscribe(St, id, Observer), id, Observer))
    /\ UNCHANGED invalidations

\* A caller calls the function that its subscribe call k returned.
Unsubscribe(k) ==
    /\ subscriptions[k].calls < MaxCalls
    /\ Becomes([QueueUnsubscribe(St, subscriptions[k].id, subscriptions[k].callback)
                   EXCEPT !.subscriptions[k].calls = @ + 1])
    /\ UNCHANGED invalidations

\* A caller invokes renderComposition.
RenderComposition ==
    /\ Len(jobs) < MaxJobs
    /\ Becomes(RenderCompositionOp(St, DefaultInput))
    /\ UNCHANGED invalidations

\* renderComposition resumes from its await of createJob: it subscribes its callback
\* to the job.  Its continuation was queued when createJob returned, behind the
\* continuation of a processJob whose getBundle() promise was already settled then.
RenderCompositionSubscribes ==
    /\ subscribing # 0
    /\ pc[subscribing] \notin {"bundleReady", "bundleThrew"}
    /\ Becomes([QueueSubscribe(St, subscribing, RenderCompositionCallback)
                   EXCEPT !.subscribing = 0])
    /\ UNCHANGED invalidations

\* The bundler's promise of call b resolves.
BundleResolves(b) ==
    /\ builds[b].state = "pending"
    /\ Becomes([St EXCEPT !.builds[b].state = "resolved"])
    /\ UNCHANGED invalidations

\* The bundler's promise of call b rejects.
BundleRejects(b) ==
    /\ builds[b].state = "pending"
    /\ \E msg \in BundleMessages :
           Becomes([St EXCEPT
               !.builds[b].state = "rejected",
               !.builds[b].error = msg,
               !.builds[b].awaiting = {id \in DOMAIN jobs :
                                          /\ pc[id] \in {"bundleBuilding", "bundleJoined"}
                                          /\ held[id] = b}])
    /\ UNCHANGED invalidations

\* getBundle of the job that started the build resumes: it installs the location.
GetBundleInstalls(id) ==
    /\ pc[id] = "bundleBuilding"
    /\ builds[held[id]].state = "resolved"
    /\ Becomes([St EXCEPT !.bundleLocation = held[id], !.pc[id] = "bundleReady",
                          !.cachedSince = IF @ = 0 THEN held[id] ELSE @])
    /\ UNCHANGED invalidations

\* processJob resumes with the bundle location.
JobBundled(id) ==
    /\ \/ pc[id] = "bundleReady"
       \/ pc[id] = "bundleJoined" /\ builds[held[id]].state = "resolved"
    /\ Becomes(ProcessJobBundled(St, id))
    /\ UNCHANGED invalidations

\* processJob resumes with the build's error.
JobBundleFailed(id) ==
    /\ pc[id] \in {"bundleBuilding", "bundleJoined"}
    /\ builds[held[id]].state = "rejected"
    /\ Becomes(ProcessJobFail(St, id, builds[held[id]].error))
    /\ UNCHANGED invalidations

\* processJob resumes with the error that getBundle threw before its await.
JobBundleThrew(id) ==
    /\ pc[id] = "bundleThrew"
    /\ Becomes(ProcessJobFail(St, id, EntryPointMessage))
    /\ UNCHANGED invalidations

\* selectComposition returns: processJob calls renderMedia.
SelectCompositionReturns(id) ==
    /\ pc[id] = "selectComposition"
    /\ Becomes([St EXCEPT !.pc[id] = "renderMedia"])
    /\ UNCHANGED invalidations

\* selectComposition throws.
SelectCompositionThrows(id) ==
    /\ pc[id] = "selectComposition"
    /\ \E msg \in EngineMessages : Becomes(ProcessJobFail(St, id, msg))
    /\ UNCHANGED invalidations

\* renderMedia reports progress.
RenderMediaProgress(id) ==
    /\ pc[id] = "renderMedia"
    /\ \E fraction \in Fractions, encodedFrames \in {0, 1} :
           Becomes(OnProgress(St, id, fraction, encodedFrames))
    /\ UNCHANGED invalidations

\* renderMedia returns: processJob calls renderStill.
RenderMediaReturns(id) ==
    /\ pc[id] = "renderMedia"
    /\ Becomes([St EXCEPT !.pc[id] = "renderStill"])
    /\ UNCHANGED invalidations

\* renderMedia throws.
RenderMediaThrows(id) ==
    /\ pc[id] = "renderMedia"
    /\ \E msg \in EngineMessages : Becomes(ProcessJobFail(St, id, msg))
    /\ UNCHANGED invalidations

\* renderStill returns: the thumbnail file exists.
RenderStillReturns(id) ==
    /\ pc[id] = "renderStill"
    /\ Becomes(ProcessJobComplete(St, id, TRUE))
    /\ UNCHANGED invalidations

\* renderStill throws: the error is swallowed.  fs.existsSync may find a file at the
\* thumbnail path anyway (an older one, or the one renderStill was writing), and it
\* finds the rendered video there when the thumbnail path is the output path.
RenderStillThrows(id) ==
    /\ pc[id] = "renderStill"
    /\ \E exists \in BOOLEAN :
           /\ ThumbnailPathOf(jobs[id].outputPath) = jobs[id].outputPath => exists
           /\ Becomes(ProcessJobComplete(St, id, exists))
    /\ UNCHANGED invalidations

\* The steps of the environment and of the event loop: every step but a call of
\* createJob, subscribeToProgress or invalidateBundle.
Run ==
    \/ \E b \in DOMAIN builds : BundleResolves(b)
    \/ \E b \in DOMAIN builds : BundleRejects(b)
    \/ \E id \in DOMAIN jobs : GetBundleInstalls(id)
    \/ \E id \in DOMAIN jobs : JobBundled(id)
    \/ \E id \in DOMAIN jobs : JobBundleFailed(id)
    \/ \E id \in DOMAIN jobs : JobBundleThrew(id)
    \/ \E id \in DOMAIN jobs : SelectCompositionReturns(id)
    \/ \E id \in DOMAIN jobs : SelectCompositionThrows(id)
    \/ \E id \in DOMAIN jobs : RenderMediaProgress(id)
    \/ \E id \in DOMAIN jobs : RenderMediaReturns(id)
    \/ \E id \in DOMAIN jobs : RenderMediaThrows(id)
    \/ \E id \in DOMAIN jobs : RenderStillReturns(id)
    \/ \E id \in DOMAIN jobs : RenderStillThrows(id)

\* The service with no subscriber.
Next ==
    \/ CreateJob
    \/ InvalidateBundle
    \/ Run

Spec == Init /\ [][Next]_vars

\* The service with subscribers, whose callbacks run inside update(); its callers
\* create at most MaxLiveJobs jobs, the callbacks create the others, and nobody
\* invalidates the bundle.
SubscribedNext ==
    \/ Len(jobs) < MaxLiveJobs /\ CreateJob
    \/ /\ Subscribed(1) < MaxListeners
       /\ \E id \in DOMAIN jobs, kind \in CallbackKinds : Subscribe(id, kind)
    \/ Run

SubscribedSpec == Init /\ [][SubscribedNext]_vars

\* The service with no subscriber, whose callers make at most MaxRequests createJob
\* calls for at most MaxLiveJobs jobs, with any input, and never invalidate.
InputNext ==
    \/ /\ Len(requests) < MaxRequests
       /\ Len(jobs) < MaxLiveJobs
       /\ \E input \in Inputs : CreateJobWith(input)
    \/ Run

InputSpec == Init /\ [][InputNext]_vars

\* The service whose callers make at most MaxOptionCalls createJob calls, with any
\* options; nothing of the bundler or the engine settles meanwhile.
OptionNext ==
    /\ Len(requests) < MaxOptionCalls
    /\ \E input \in OptionInputs : CreateJobWith(input)

OptionSpec == Init /\ [][OptionNext]_vars

\* The continuation of processJob that was queued before the continuation of
\* renderComposition runs first: the one of the job just created, when its
\* getBundle() returned the cached location or threw.
FirstTick ==
    /\ subscribing # 0
    /\ \/ pc[subscribing] = "bundleReady" /\ JobBundled(subscribing)
       \/ JobBundleThrew(subscribing)

\* The service with callers of renderComposition and createJob (at most MaxLiveJobs
\* jobs) and observers that subscribe and unsubscribe at will (at most
\* MaxSubscriptions subscriptions); nobody invalidates the bundle.  While a
\* renderComposition call awaits createJob, the microtask queue runs before anything
\* else: nothing of the bundler or the engine settles, and no other call comes in.
DirectNext ==
    \/ subscribing = 0 /\ Len(jobs) < MaxLiveJobs /\ RenderComposition
    \/ subscribing = 0 /\ Len(jobs) < MaxLiveJobs /\ CreateJob
    \/ subscribing = 0 /\ \E id \in DOMAIN jobs : ObserverSubscribes(id)
    \/ subscribing = 0 /\ \E k \in DOMAIN subscriptions : Unsubscribe(k)
    \/ subscribing = 0 /\ Run
    \/ FirstTick
    \/ RenderCompositionSubscribes

DirectSpec == Init /\ [][DirectNext]_vars

\* The continuations the event loop runs and the settlements the environment owes:
\* every step but a new call (createJob, invalidateBundle) and a progress report.
Settle ==
    \/ \E b \in DOMAIN builds : BundleResolves(b) \/ BundleRejects(b)
    \/ \E id \in DOMAIN jobs :
           \/ GetBundleInstalls(id)
           \/ JobBundled(id)
           \/ JobBundleFailed(id)
           \/ JobBundleThrew(id)
           \/ SelectCompositionReturns(id) \/ SelectCompositionThrows(id)
           \/ RenderMediaReturns(id) \/ RenderMediaThrows(id)
           \/ RenderStillReturns(id) \/ RenderStillThrows(id)

\* The program with every bundle build and every engine call eventually settling,
\* and the event loop running every continuation that is ready.
\* The service with no subscriber, whose callers create at most MaxLiveJobs jobs.
LiveNext ==
    \/ Len(jobs) < MaxLiveJobs /\ CreateJob
    \/ InvalidateBundle
    \/ Run

FairSpec == Init /\ [][LiveNext]_vars /\ WF_vars(Settle)

------------------------------------------------------------------------------
(* The render_jobs store of the API: createRenderJob, updateRenderJobStatus and
   cancelRenderJob.  Every await of a query is a step of its own: the statements of
   calls in flight interleave, each one atomic in the database. *)

\* The statuses that the workers report with updateRenderJobStatus.
ReportedStatuses == {"processing", "rendering", "encoding", "completed", "failed"}

\* The statuses cancelRenderJob accepts.
CancellableStatuses == {"queued", "processing", "rendering"}

\* The ids the callers give: those of the rows, and one of no row.
RowIds == 1..(MaxRows + 1)

\* createRenderJob: insert a row with status queued and progress 0.
CreateRenderJob ==
    /\ Len(renderJobs) < MaxRows
    /\ renderJobs' = Append(renderJobs, [status |-> "queued", progress |-> 0])
    /\ UNCHANGED <<calls, serviceVars>>

\* A caller invokes updateRenderJobStatus(id, status): up to its await of
\* getRenderJobById.
CallUpdateRenderJobStatus(id, status) ==
    /\ Len(calls) < MaxStoreCalls
    /\ calls' = Append(calls, [op |-> "updateRenderJobStatus", id |-> id,
                               status |-> status, pc |-> "ensure"])
    /\ UNCHANGED <<renderJobs, serviceVars>>

\* A caller invokes cancelRenderJob(id): up to its await of getRenderJobById.
CallCancelRenderJob(id) ==
    /\ Len(calls) < MaxStoreCalls
    /\ calls' = Append(calls, [op |-> "cancelRenderJob", id |-> id,
                               status |-> "cancelled", pc |-> "read"])
    /\ UNCHANGED <<renderJobs, serviceVars>>

\* cancelRenderJob resumes with the row it read: it throws for a row that is
\* missing or whose status it does not accept, and calls updateRenderJobStatus
\* otherwise, which runs to its own await of getRenderJobById.
CancelReads(c) ==
    /\ calls[c].pc = "read"
    /\ calls' = [calls EXCEPT ![c].pc =
           IF calls[c].id \notin DOMAIN renderJobs THEN "threw"
           ELSE IF renderJobs[calls[c].id].status \notin CancellableStatuses THEN "threw"
           ELSE "ensure"]
    /\ UNCHANGED <<renderJobs, serviceVars>>

\* updateRenderJobStatus resumes from getRenderJobById: it throws for a missing
\* row, and issues the UPDATE otherwise.
UpdateEnsures(c) ==
    /\ calls[c].pc = "ensure"
    /\ calls' = [calls EXCEPT ![c].pc =
           IF calls[c].id \in DOMAIN renderJobs THEN "write" ELSE "threw"]
    /\ UNCHANGED <<renderJobs, serviceVars>>

\* The UPDATE of updateRenderJobStatus runs: set status where id, whatever the
\* status of the row is by now.
UpdateWrites(c) ==
    /\ calls[c].pc = "write"
    /\ renderJobs' = [renderJobs EXCEPT ![calls[c].id].status = calls[c].status]
    /\ calls' = [calls EXCEPT ![c].pc = "returned"]
    /\ UNCHANGED serviceVars

StoreNext ==
    \/ CreateRenderJob
    \/ \E id \in RowIds, status \in ReportedStatuses : CallUpdateRenderJobStatus(id, status)
    \/ \E id \in RowIds : CallCancelRenderJob(id)
    \/ \E c \in DOMAIN calls : CancelReads(c)
    \/ \E c \in DOMAIN calls : UpdateEnsures(c)
    \/ \E c \in DOMAIN calls : UpdateWrites(c)

StoreSpec == Init /\ [][StoreNext]_vars

------------------------------------------------------------------------------
(* Properties *)

Created(id) == id \in DOMAIN jobs

Terminal(id) == id \in DOMAIN jobs /\ jobs[id].status \in {"completed", "failed"}

\* createJob returned job id to its caller with status queued.
ReturnedQueued(id) ==
    \E i \in DOMAIN returned : returned[i].id = id /\ returned[i].status = "queued"

Pending(id) == \E i \in DOMAIN queue : queue[i] = id

AwaitsRejectedBuild(id) ==
    /\ id \in DOMAIN jobs
    /\ pc[id] \in {"bundleBuilding", "bundleJoined"}
    /\ builds[held[id]].state = "rejected"

\* Job id was awaiting bundler call b when the call rejected.
AwaitedAtFailure(b, id) ==
    IF b \in DOMAIN builds THEN id \in builds[b].awaiting ELSE FALSE

\* Job id has failed with the message of bundler call b and holds no slot.
FailedWithBuild(b, id) ==
    IF b \in DOMAIN builds /\ id \in DOMAIN jobs
    THEN /\ jobs[id].status = "failed"
         /\ jobs[id].error = builds[b].error
         /\ id \notin processing
    ELSE FALSE

\* C1: the processing set never holds more than maxConcurrent job ids.
ConcurrencyBound ==
    Cardinality(processing) <= maxConcurrent

\* C1 witness: the cap is reached while another job waits.
ConcurrencyBoundWitness ==
    Cardinality(processing) = maxConcurrent /\ queue # <<>>

\* C2: admission is FIFO: a job added after another is never dequeued while the
\* other is still pending, and the pending list is in order of addition.
FifoAdmission ==
    /\ \A a, b \in DOMAIN jobs : a < b /\ ~Pending(b) => ~Pending(a)
    /\ \A i, k \in DOMAIN queue : i < k => queue[i] < queue[k]

\* C2 witness: with one slot, the second job has been dequeued by a finally block
\* while the third still waits.
FifoAdmissionWitness ==
    /\ maxConcurrent = 1
    /\ Len(jobs) = 3
    /\ admittedBy[2] = "finally"
    /\ queue = <<3>>

\* C3: with builds and engine calls settling, every job added ends completed or
\* failed: no job, once created, stays short of a terminal status from some point on.
EveryJobTerminates ==
    \A id \in 1..MaxJobs : []<>(Created(id) => Terminal(id))

\* C3 witness: a job that had to wait in the pending list has ended, dequeued by a
\* finally block and by no poller.
EveryJobTerminatesWitness ==
    \E id \in DOMAIN jobs :
        /\ admittedBy[id] = "finally"
        /\ ReturnedQueued(id)
        /\ Terminal(id)

\* C4: between two runs of the event loop, no job is pending while a slot is free,
\* whatever the subscribed callbacks do inside a running processQueue.
WorkConserving ==
    ~(queue # <<>> /\ Cardinality(processing) < maxConcurrent)

\* C4 witness: with one slot, the first job has ended and its finally block started
\* the second; the callback of the second created the third inside that running
\* processQueue (whose guard turned the nested call away) and threw; the second
\* failed on the spot and the same loop started the third.
WorkConservingWitness ==
    /\ maxConcurrent = 1
    /\ Len(jobs) = 3
    /\ Terminal(1)
    /\ admittedBy[2] = "finally"
    /\ jobs[2].status = "failed" /\ jobs[2].error = ListenerMessage
    /\ \E i \in DOMAIN returned :
           returned[i].id = 3 /\ returned[i].reentrant /\ returned[i].status = "queued"
    /\ admittedBy[3] = "finally"
    /\ 3 \in processing
    /\ ~Terminal(3)

\* A step in which the engine call of job id throws.
EngineFailure(id) ==
    /\ pc[id] \in {"selectComposition", "renderMedia"}
    /\ pc'[id] = "done"
    /\ jobs'[id].status = "failed"

\* C5: when the engine call of a job throws, that job's record changes in status,
\* error and completedAt only; no other record changes but by the normal admission
\* of the oldest pending jobs (queued to bundling), and what remains pending keeps
\* its order.
FailureIsolation ==
    [][\A id \in DOMAIN jobs : EngineFailure(id) =>
          /\ DOMAIN jobs' = DOMAIN jobs
          /\ \E msg \in EngineMessages :
                 jobs'[id] = [jobs[id] EXCEPT !.status = "failed", !.error = msg,
                                              !.completedAt = TRUE]
          /\ \A k \in DOMAIN jobs \ {id} :
                 \/ jobs'[k] = jobs[k]
                 \/ /\ Pending(k)
                    /\ jobs'[k] = [jobs[k] EXCEPT !.status = "bundling", !.startedAt = TRUE]
          /\ \E n \in 0..Len(queue) : queue' = SubSeq(queue, n + 1, Len(queue))
          /\ processing' \subseteq (processing \ {id}) \cup {queue[i] : i \in DOMAIN queue}
    ]_vars

\* C5 witness: with one slot, the first job completed, the second failed in the
\* engine, and the third, which the failure's finally block started, completed.
FailureIsolationWitness ==
    /\ maxConcurrent = 1
    /\ Len(jobs) = 3
    /\ jobs[1].status = "completed"
    /\ jobs[2].status = "failed" /\ jobs[2].error \in EngineMessages
    /\ admittedBy[3] = "finally" /\ ReturnedQueued(3)
    /\ jobs[3].status = "completed"

\* C6: a completed job has progress 100, an output path and no error; a job whose
\* processing has ended is completed or failed; a failed job has its error set, and
\* only a failed job has one.
TerminalInvariant ==
    \A id \in DOMAIN jobs :
        /\ jobs[id].status = "completed" =>
               /\ jobs[id].progress = 100
               /\ jobs[id].outputPath # Undefined
               /\ jobs[id].error = Undefined
        /\ pc[id] = "done" => jobs[id].status \in {"completed", "failed"}
        /\ jobs[id].status = "failed" => jobs[id].error # Undefined
        /\ jobs[id].error # Undefined => jobs[id].status = "failed"

\* C6 witness: one job has completed and another has failed.
TerminalInvariantWitness ==
    \E a, b \in DOMAIN jobs :
        /\ jobs[a].status = "completed" /\ pc[a] = "done"
        /\ jobs[b].status = "failed" /\ pc[b] = "done"

\* C7 as stated: the job createJob returns is queued with progress 0.
ReturnedJobIsQueued ==
    \A i \in DOMAIN returned :
        returned[i].status = "queued" /\ returned[i].progress = 0

\* C7 amended: the job createJob returns has progress 0; it is queued when every
\* slot was occupied at the call and already bundling when a slot was free.
ReturnedJobStatus ==
    \A i \in DOMAIN returned :
        /\ returned[i].progress = 0
        /\ returned[i].status = IF returned[i].slotFree THEN "bundling" ELSE "queued"

\* C7 witness: createJob has returned one job with a slot free and one with none.
ReturnedJobStatusWitness ==
    \E a, b \in DOMAIN returned :
        /\ returned[a].slotFree /\ returned[a].status = "bundling"
        /\ ~returned[b].slotFree /\ returned[b].status = "queued"

\* C8: with no invalidate, the bundler is called at most once, one getBundle call
\* is its owner, and every job awaiting a bundle awaits that one call.
BundleSingleFlight ==
    invalidations = 0 =>
        /\ Len(builds) <= 1
        /\ Cardinality({id \in DOMAIN jobs : pc[id] = "bundleBuilding"}) <= 1
        /\ \A id \in DOMAIN jobs :
               pc[id] \in {"bundleBuilding", "bundleJoined"} =>
                   held[id] = bundlePromise /\ bundlePromise = 1

\* C8 witness: two jobs await the one build in flight.
BundleSingleFlightWitness ==
    /\ invalidations = 0
    /\ Len(builds) = 1 /\ builds[1].state = "pending"
    /\ \E a, b \in DOMAIN jobs :
           /\ pc[a] = "bundleBuilding" /\ held[a] = 1
           /\ pc[b] = "bundleJoined" /\ held[b] = 1

\* C9 as stated: a job that calls getBundle when the last build has failed, with
\* no invalidate since, makes the bundler run again.
FreshBuildAfterFailure ==
    [][\A id \in DOMAIN jobs :
          /\ pc[id] = "queued"
          /\ pc'[id] # "queued"
          /\ bundleLocation = 0
          /\ bundlePromise # 0
          /\ builds[bundlePromise].state = "rejected"
          => Len(builds') > Len(builds)
    ]_vars

\* C10: a job awaiting a build that has failed resumes only by failing with the
\* build's message and leaving the processing set, and every job that was awaiting
\* the build when it failed does so eventually (none stays short of it for ever).
BuildFailurePropagates ==
    /\ [][\A id \in DOMAIN jobs :
              AwaitsRejectedBuild(id) /\ pc'[id] # pc[id] =>
                  /\ pc'[id] = "done"
                  /\ jobs'[id].status = "failed"
                  /\ jobs'[id].error = builds[held[id]].error
                  /\ id \notin processing'
       ]_vars
    /\ \A b \in 1..(MaxInvalidations + 1) : \A id \in 1..MaxJobs :
           []<>(AwaitedAtFailure(b, id) => FailedWithBuild(b, id))

\* C10 witness: two jobs were awaiting the build when it failed; both have failed
\* with its message and have left the processing set.
BuildFailurePropagatesWitness ==
    \E b \in DOMAIN builds :
        /\ builds[b].state = "rejected"
        /\ Cardinality(builds[b].awaiting) >= 2
        /\ \A id \in builds[b].awaiting :
               /\ pc[id] = "done"
               /\ jobs[id].status = "failed"
               /\ jobs[id].error = builds[b].error
               /\ id \notin processing

\* The place of a status in the order of the phases; completed and failed are both last.
Phase(status) ==
    CASE status = "queued" -> 0
      [] status = "bundling" -> 1
      [] status = "rendering" -> 2
      [] status = "encoding" -> 3
      [] OTHER -> 4

\* C13 as stated: a job has progress 100 exactly when its status is completed.
ProgressHundredIffCompleted ==
    \A id \in DOMAIN jobs :
        jobs[id].progress = 100 <=> jobs[id].status = "completed"

\* C14 as stated: no step takes the status of a job from a later phase to an
\* earlier one, whatever progress reports the engine delivers.
StatusMonotonic ==
    [][\A id \in DOMAIN jobs :
          Phase(jobs'[id].status) >= Phase(jobs[id].status)]_vars

\* C15 as stated: the progress of a job stays within 0..100, and no step lowers it
\* while the job is in the processing set, whatever fractions the engine reports.
ProgressMonotonic ==
    /\ [][\A id \in DOMAIN jobs :
              id \in processing => jobs'[id].progress >= jobs[id].progress]_vars
    /\ [](\A id \in DOMAIN jobs : jobs[id].progress \in 0..100)

\* C17 as stated: when renderStill throws after a successful render, the job ends
\* completed with progress 100 and no error, its thumbnailPath is left unset, and
\* it leaves the processing set.
ThumbnailFailureLeavesPathUnset ==
    [][\A id \in DOMAIN jobs :
          RenderStillThrows(id) =>
              /\ jobs'[id].status = "completed"
              /\ jobs'[id].progress = 100
              /\ jobs'[id].error = Undefined
              /\ jobs'[id].thumbnailPath = Undefined
              /\ id \notin processing'
    ]_vars

\* In this step processJob of job id starts and calls getBundle.
CallsGetBundle(id) ==
    /\ id \in DOMAIN jobs => pc[id] = "queued"
    /\ pc'[id] # "queued"

\* C11 as stated: once a build has completed successfully and getBundle has cached
\* its location, every getBundle call made before the next invalidateBundle gets
\* that location and makes no bundler call.
CachedBundleReused ==
    [][\A id \in DOMAIN jobs' :
          CallsGetBundle(id) /\ cachedSince # 0 =>
              /\ Len(builds') = Len(builds)
              /\ held'[id] = cachedSince
    ]_vars

\* C12 as stated: the first getBundle call after an invalidateBundle (no bundler
\* call has been made since the invalidate) makes a bundler call and awaits it,
\* whether a bundle was cached or a build was in flight at the invalidate.
InvalidateForcesRebuild ==
    [][\A id \in DOMAIN jobs' :
          /\ CallsGetBundle(id)
          /\ entryPoint # Undefined
          /\ invalidations > 0
          /\ Len(builds) = invalidatedAt
          => /\ Len(builds') > Len(builds)
             /\ held'[id] = Len(builds')
    ]_vars

\* C16 as stated: a createJob call with a composition id that is not a key of the
\* registry is rejected and leaves the job map, the pending list and the processing
\* set as they were.
UnknownCompositionRejected ==
    [][\A i \in DOMAIN requests' \ DOMAIN requests :
          requests'[i].input.compositionId \notin RegistryKeys =>
              /\ requests'[i].error # Undefined
              /\ jobs' = jobs
              /\ queue' = queue
              /\ processing' = processing
    ]_vars

\* The number of times the callback is in the list.
Count(list, callback) ==
    Cardinality({i \in DOMAIN list : list[i] = callback})

\* C18 as stated: once the job of a renderComposition call has ended and the call
\* has subscribed, its promise is settled (nothing notifies it later): resolved with
\* the output path of a completed job, rejected with the error of a failed one, and
\* its callback is registered no more.
RenderCompositionSettles ==
    \A id \in DOMAIN jobs :
        promises[id].state # "none" /\ pc[id] = "done" /\ subscribing # id =>
            /\ jobs[id].status = "completed" =>
                   promises[id] = [state |-> "resolved", value |-> jobs[id].outputPath]
            /\ jobs[id].status = "failed" =>
                   promises[id] = [state |-> "rejected", value |-> jobs[id].error]
            /\ Count(listeners[id], RenderCompositionCallback) = 0

\* C19 as stated: every update() call notifies each callback subscribed to the job
\* when it is made exactly once (as many times as it is subscribed), with the
\* post-merge snapshot of that job.
UpdateNotifiesEverySubscriber ==
    \A u \in DOMAIN notifications :
        /\ \A i \in DOMAIN notifications[u].before :
               Count(notifications[u].got, notifications[u].before[i])
                   = Count(notifications[u].before, notifications[u].before[i])
        /\ Len(notifications[u].got) = Len(notifications[u].before)

\* C20 as stated: a call of a function that subscribe returned, after its first
\* call, leaves the listener lists as they are.
UnsubscribeIdempotent ==
    [][\A k \in DOMAIN subscriptions :
          subscriptions[k].calls >= 1 /\ subscriptions'[k].calls > subscriptions[k].calls
              => listeners' = listeners
    ]_vars

\* The functions subscribe returned for job id that their callers hold.
SubscriptionsOf(id) ==
    {k \in DOMAIN subscriptions : subscriptions[k].id = id}

\* C21 as stated: when each function subscribe returned for a job was called at most
\* once and one of them was called, every later update() of the job calls the
\* observers as many times as subscriptions were not unsubscribed: none for a
\* subscription unsubscribed before the update, one for each that remains.
SubscriberLifecycle ==
    \A u \in DOMAIN notifications :
        LET id == notifications[u].progress.jobId
        IN  /\ \A k \in SubscriptionsOf(id) : subscriptions[k].calls <= 1
            /\ \E k \in SubscriptionsOf(id) : subscriptions[k].calls = 1
            => Count(notifications[u].got, Observer)
                   = Cardinality({k \in SubscriptionsOf(id) : subscriptions[k].calls = 0})

\* The statuses of a job that has ended.
EndedStatuses == {"completed", "failed", "cancelled"}

\* C22 as stated: a cancelRenderJob call that finds its job queued or being
\* processed does not fail; one that finds it completed, failed or cancelled fails;
\* and no step of a cancelRenderJob call changes the row of a job that has ended,
\* however its steps interleave with those of updateRenderJobStatus calls.
CancelOnlyActive ==
    [][\A c \in DOMAIN calls :
          calls[c].op = "cancelRenderJob" /\ calls[c].id \in DOMAIN renderJobs =>
              /\ calls[c].pc = "read" /\ calls'[c].pc # "read" =>
                     (calls'[c].pc = "threw"
                          <=> renderJobs[calls[c].id].status \in EndedStatuses)
              /\ renderJobs[calls[c].id].status \in EndedStatuses
                     /\ calls'[c].pc # calls[c].pc
                     => renderJobs'[calls[c].id] = renderJobs[calls[c].id]
    ]_vars

\* The job created by the createJob call i, and the input of the call.
CreatedBy(i) == jobs[i]
InputOf(i) == requests[i].input

\* fps, quality and format of a created job are those given, or 30, standard and
\* landscape; the dimensions of each format are the fixed ones.
OptionDefaults(i) ==
    /\ CreatedBy(i).fps = IF InputOf(i).fps = NotGiven THEN 30 ELSE InputOf(i).fps
    /\ CreatedBy(i).quality
           = IF InputOf(i).quality = Undefined THEN "standard" ELSE InputOf(i).quality
    /\ CreatedBy(i).format
           = IF InputOf(i).format = Undefined THEN "landscape" ELSE InputOf(i).format
    /\ Dimensions(CreatedBy(i).format)
           = CASE CreatedBy(i).format = "landscape" -> [width |-> 1920, height |-> 1080]
               [] CreatedBy(i).format = "portrait" -> [width |-> 1080, height |-> 1920]
               [] CreatedBy(i).format = "square" -> [width |-> 1080, height |-> 1080]

\* C23 as stated: the duration of a created job is the duration given, or the
\* default of its composition when none is given; fps, quality and format default
\* to 30, standard and landscape, and each format has its fixed dimensions.
DurationGivenOrDefault ==
    \A i \in DOMAIN jobs :
        /\ CreatedBy(i).duration
               = IF InputOf(i).duration # NotGiven THEN InputOf(i).duration
                 ELSE DefaultDuration(InputOf(i).compositionId)
        /\ OptionDefaults(i)

\* C23 amended: the duration of a created job is the duration given when it is not
\* 0, and the default of its composition when none is given or 0 is given; the rest
\* as stated.
DurationNonZeroOrDefault ==
    \A i \in DOMAIN jobs :
        /\ CreatedBy(i).duration
               = IF InputOf(i).duration \notin {NotGiven, 0} THEN InputOf(i).duration
                 ELSE DefaultDuration(InputOf(i).compositionId)
        /\ OptionDefaults(i)

\* C23 witness: a job was created with a duration given that is not the default of
\* its composition, in portrait format, with fps and quality not given.
DurationNonZeroOrDefaultWitness ==
    \E i \in DOMAIN jobs :
        /\ InputOf(i).duration = 20 /\ CreatedBy(i).duration = 20
        /\ DefaultDuration(InputOf(i).compositionId) = 30
        /\ InputOf(i).format = "portrait"
        /\ InputOf(i).fps = NotGiven /\ CreatedBy(i).fps = 30
        /\ InputOf(i).quality = Undefined /\ CreatedBy(i).quality = "standard"

\* C24: between two runs of the event loop no processQueue is running and the flag
\* is false; the loop was never entered while it was running; and a createJob call
\* made while it was running got its job back queued, its own processQueue call
\* having dequeued nothing.
SingleActivation ==
    /\ isProcessing = FALSE
    /\ ~overlapped
    /\ \A i \in DOMAIN returned :
           returned[i].reentrant =>
               /\ returned[i].status = "queued"
               /\ admittedBy[returned[i].id] # "createJob"

\* C24 witness: a callback called createJob while processQueue was running, from
\* the finally block of a job; the call was turned away and the running loop
\* dequeued the new job afterwards.
SingleActivationWitness ==
    \E i \in DOMAIN returned :
        /\ returned[i].reentrant
        /\ returned[i].status = "queued"
        /\ admittedBy[returned[i].id] = "finally"
        /\ returned[i].id \in processing

\* C25: a job is dequeued at most once: an id is in the pending list once at most
\* and only before its processJob has started, never in the pending list and the
\* processing set together; a job that has left the pending list never returns to
\* it, and a job whose processJob has ended, failed or not, is never in the
\* processing set again.
DequeuedAtMostOnce ==
    [][/\ \A i, k \in DOMAIN queue' : i # k => queue'[i] # queue'[k]
       /\ \A id \in DOMAIN jobs' :
              /\ (\E i \in DOMAIN queue' : queue'[i] = id) =>
                     pc'[id] = "queued" /\ id \notin processing'
              /\ pc'[id] = "queued" => id \notin processing'
       /\ \A id \in DOMAIN jobs :
              /\ ~Pending(id) => ~(\E i \in DOMAIN queue' : queue'[i] = id)
              /\ pc[id] # "queued" => pc'[id] # "queued"
              /\ pc[id] = "done" => pc'[id] = "done" /\ id \notin processing'
    ]_vars

\* C25 witness: with one slot, the first job has failed and holds no slot, the
\* finally block of its processJob has dequeued the second, and the third waits.
DequeuedAtMostOnceWitness ==
    /\ maxConcurrent = 1
    /\ Len(jobs) = 3
    /\ jobs[1].status = "failed" /\ pc[1] = "done"
    /\ admittedBy[2] = "finally" /\ processing = {2}
    /\ queue = <<3>>

\* C26: between two runs of the event loop, a job is in the pending list exactly
\* when its status is queued and in the processing set exactly when its status is
\* bundling, rendering or encoding; a completed or failed job is in neither.
BookkeepingMatchesStatus ==
    \A id \in DOMAIN jobs :
        /\ Pending(id) <=> jobs[id].status = "queued"
        /\ id \in processing <=> jobs[id].status \in {"bundling", "rendering", "encoding"}
        /\ Terminal(id) => ~Pending(id) /\ id \notin processing

\* C26 witness: with one slot, the first job has completed, the second is encoding
\* and the third is queued.
BookkeepingMatchesStatusWitness ==
    /\ Len(jobs) = 3
    /\ jobs[1].status = "completed" /\ 1 \notin processing
    /\ jobs[2].status = "encoding" /\ 2 \in processing
    /\ jobs[3].status = "queued" /\ queue = <<3>>

\* C27 as stated: no step leaves as the cached location the result of a build
\* started before the last invalidateBundle, and no getBundle call gets the result
\* of such a build or joins one.
StaleBuildNeverInstalled ==
    [][/\ bundleLocation' # 0 => bundleLocation' > invalidatedAt'
       /\ \A id \in DOMAIN jobs' :
              CallsGetBundle(id) /\ held'[id] # 0 => held'[id] > invalidatedAt'
    ]_vars

\* C28 as stated: no update() changes the status, the progress or the error of a job
\* that is completed or failed, and no step changes them either.
TerminalAbsorbing ==
    [][/\ reopened' = {}
       /\ \A id \in DOMAIN jobs :
              Terminal(id) =>
                  /\ jobs'[id].status = jobs[id].status
                  /\ jobs'[id].progress = jobs[id].progress
                  /\ jobs'[id].error = jobs[id].error
    ]_vars

\* C29 as stated: in an update() whose notification makes the callback of
\* renderComposition unsubscribe itself (the job is completed or failed), every
\* observer subscribed when update() was called is called exactly once per
\* subscription.
SelfUnsubscribeSkipsNone ==
    \A u \in DOMAIN notifications :
        /\ Count(notifications[u].before, RenderCompositionCallback) > 0
        /\ notifications[u].progress.status \in {"completed", "failed"}
        => Count(notifications[u].got, Observer)
               = Count(notifications[u].before, Observer)

\* C30 as stated: a job whose bundle, selectComposition and renderMedia have
\* succeeded ends completed, and no job fails with the error of a subscriber,
\* whatever its callbacks throw.
OutcomeIndependentOfSubscribers ==
    [][\A id \in DOMAIN jobs :
          /\ pc[id] = "renderStill" /\ pc'[id] = "done" =>
                 jobs'[id].status = "completed"
          /\ jobs'[id].status = "failed" => jobs'[id].error # ListenerMessage
    ]_vars

====
